---- MODULE Spec2Model ----
(***************************************************************************)
(* LinkedTraceMiddleware (otel_fastapi_link_middleware/__init__.py).       *)
(*                                                                         *)
(* An ASGI middleware: for an http scope that carries a traceparent header *)
(* it renames and marks the active span, starts a new root span under the  *)
(* old name, copies the attributes, links the two spans to each other and  *)
(* runs the wrapped app inside the new span.                               *)
(*                                                                         *)
(* The tracing SDK is a collaborator.  It is modelled by what the          *)
(* middleware relies on: a store of spans (name, attributes, links,        *)
(* context, parent, ended), an id generator that hands out fresh ids, a    *)
(* per-task ambient "current span", and a sampler that records every root. *)
(* A span without a name attribute (NonRecordingSpan) ignores every write. *)
(***************************************************************************)
EXTENDS Integers, Sequences, FiniteSets, TLC

\* ------------------------------------------------------------------ bounds

\* Tasks (coroutines) of the host, each handling one request.
NTasks == 2
\* Longest header list of a scope.
MaxHeaders == 2

Tasks == 1..NTasks

\* ------------------------------------------------------------------ values

\* Python's None, as the result of dict.get on a missing key.
NoneVal == "<None>"
\* A scope without a "path" key, and a scope whose path is not a str.
PathMissing == "<missing>"
PathNotStr == "<not-a-str>"

HeaderKeys == {"traceparent", "Traceparent", "host"}
HeaderVals == {"", "00-0af7-b7ad-01"}
HeaderLists == UNION {[1..n -> HeaderKeys \X HeaderVals] : n \in 0..MaxHeaders}

ScopeTypes == {"http", "websocket", "lifespan"}
ScopePaths == {"/orders", PathMissing, PathNotStr}
SpanNames == {"GET /orders", "LinkedApiSpan"}

EmptyAttrs == [k \in {} |-> ""]
AttrSets ==
    { EmptyAttrs,
      [k \in {"http.method"} |-> "GET"],
      [k \in {"http.method", "url.path"} |-> IF k = "url.path" THEN "/old" ELSE "GET"],
      [k \in {"linked_trace"} |-> "False"] }

\* The span that is active when the middleware runs: a recording SDK span
\* (it has a name and attributes) or a NonRecordingSpan (it has neither).
ActiveSpans ==
    [recording : {TRUE}, name : SpanNames, attributes : AttrSets, ctxValid : BOOLEAN]
    \cup [recording : {FALSE}, name : {NoneVal}, attributes : {EmptyAttrs},
          ctxValid : BOOLEAN]

Scopes == [type : ScopeTypes, headers : HeaderLists, path : ScopePaths]

Requests == [scope : Scopes, span : ActiveSpans]

NoRequest ==
    [scope |-> [type |-> "none", headers |-> <<>>, path |-> PathMissing],
     span |-> [recording |-> FALSE, name |-> NoneVal, attributes |-> EmptyAttrs,
               ctxValid |-> FALSE]]

AppErrors == {"ValueError", "HTTPException"}
NoOutcome == [kind |-> "none", err |-> ""]
AppOutcomes ==
    {[kind |-> "return", err |-> ""], [kind |-> "cancel", err |-> "CancelledError"]}
    \cup [kind : {"raise"}, err : AppErrors]

\* ---------------------------------------------------------- span contexts

Ctx(tid, sid) == [trace_id |-> tid, span_id |-> sid]
InvalidCtx == Ctx(0, 0)
is_valid(c) == c.trace_id # 0 /\ c.span_id # 0

\* otel_context.Context(): the empty ambient context.
EmptyContext == 0

VARIABLES
    req,      \* the request the host hands to each task: scope and active span
    pc,       \* where each task is in __call__ / _link_trace
    loc,      \* the locals of each task
    spans,    \* the SDK's spans, by index; span t is task t's active span
    current,  \* the ambient current span of each task (a contextvar)
    nextId,   \* the SDK's id generator
    calls,    \* per task, the tracing and app calls made so far, in order
    appOut,   \* per task, how the wrapped app finished
    result,   \* per task, how __call__ finished
    running   \* the task that holds the event loop, 0 when none does

vars == <<req, pc, loc, spans, current, nextId, calls, appOut, result, running>>

\* ----------------------------------------------------------- header gate

\* dict(scope["headers"]): a later pair overwrites an earlier one.
dict(headers) ==
    [k \in {headers[i][1] : i \in DOMAIN headers} |->
        LET idx == {i \in DOMAIN headers : headers[i][1] = k}
            last == CHOOSE i \in idx : \A j \in idx : j <= i
        IN headers[last][2]]

\* d.get(k): None for a missing key.
get(d, k) == IF k \in DOMAIN d THEN d[k] ELSE NoneVal

\* Truthiness of an Optional[bytes].
Truthy(v) == v # NoneVal /\ v # ""

ShouldLinkAlways(scope) == scope.type = "http"

ShouldLinkAnyType(scope) ==
    scope.type # "lifespan" /\ Truthy(get(dict(scope.headers), "traceparent"))

\* __call__, lines 47-55.
ShouldLink(scope) ==
    /\ scope.type = "http"
    /\ Truthy(get(dict(scope.headers), "traceparent"))


\* ------------------------------------------------------- the span store

\* The active span task t finds on entry.
OrigSpan(r, t) ==
    [recording |-> r.span.recording,
     name |-> r.span.name,
     attributes |-> r.span.attributes,
     links |-> <<>>,
     context |-> IF r.span.ctxValid THEN Ctx(t, t) ELSE InvalidCtx,
     parent |-> InvalidCtx,
     attr_store |-> t,
     ended |-> FALSE]

Writable(S, i) == S[i].recording /\ ~S[i].ended

SetAttr(a, k, v) == [x \in DOMAIN a \cup {k} |-> IF x = k THEN v ELSE a[x]]

\* span.set_attribute(k, v): the write goes to the span's attribute
\* mapping (attr_store names it), and shows on every span that holds that
\* same mapping.
set_attribute(S, i, k, v) ==
    IF Writable(S, i)
    THEN [j \in DOMAIN S |->
            IF S[j].attr_store = S[i].attr_store
            THEN [S[j] EXCEPT !.attributes = SetAttr(@, k, v)]
            ELSE S[j]]
    ELSE S

\* span.update_name(n)
update_name(S, i, n) ==
    IF Writable(S, i) THEN [S EXCEPT ![i].name = n] ELSE S

\* span.add_link(c): a link to an invalid context is dropped.
add_link(S, i, c) ==
    IF Writable(S, i) /\ is_valid(c)
    THEN [S EXCEPT ![i].links = Append(@, c)]
    ELSE S

\* span.end()
end_span(S, i) == [S EXCEPT ![i].ended = TRUE]

\* tracer.start_span(name, context, links): a child of the span of
\* `context`, or a root with a fresh trace id when `context` is empty or
\* its span's context is invalid.
start_span(S, id, name, context, links) ==
    LET parent == IF context = EmptyContext THEN InvalidCtx ELSE S[context].context
        tid == IF is_valid(parent) THEN parent.trace_id ELSE id
    IN Append(S, [recording |-> TRUE,
                  name |-> name,
                  attributes |-> EmptyAttrs,
                  links |-> links,
                  context |-> Ctx(tid, id),
                  parent |-> parent,
                  attr_store |-> Len(S) + 1,
                  ended |-> FALSE])

\* ------------------------------------------------- the middleware's steps

\* One slot for the current span, shared by all tasks: it holds the span
\* some task attached last, if any.
CurrentSpanGlobal(t) ==
    IF \E u \in Tasks : current[u] # u
    THEN current[CHOOSE u \in Tasks : current[u] # u]
    ELSE current[t]

\* _get_current_otlp_span, lines 18-24: the current span of the calling
\* task's context.
get_current_otlp_span(t) == current[t]

HasAttrNameAlways(S, i) == TRUE

\* hasattr(current_span, "name"), line 67.
hasattr_name(S, i) == S[i].recording

CopyNothing(S, src, dst) == S

\* dest_span._attributes = src_span._attributes: one mapping for both.
CopyByReference(S, src, dst) ==
    [S EXCEPT ![dst].attr_store = S[src].attr_store,
              ![dst].attributes = S[src].attributes]

\* _copy_span_attributes, lines 27-30: one set_attribute per item of
\* src_span._attributes, in some order of the keys.
RECURSIVE copy_items(_, _, _, _)
copy_items(S, src, dst, keys) ==
    IF keys = {} THEN S
    ELSE LET k == CHOOSE x \in keys : TRUE
         IN copy_items(set_attribute(S, dst, k, S[src].attributes[k]),
                       src, dst, keys \ {k})

copy_span_attributes(S, src, dst) ==
    copy_items(S, src, dst, DOMAIN S[src].attributes)

RenameToOldName(l) == l.span_name

\* The name given to update_name, line 76.
rename_to(l) == l.new_name

LinkSpanNameAfterRename(l) == l.new_name

\* The name given to start_as_current_span, line 80.
link_span_name(l) == l.span_name

\* The context given to start_as_current_span, line 81.
link_context(l) == l.new_context

LinkLinksAlways(l) == <<l.parent_ctx>>

LinkLinksNever(l) == <<>>

\* The links given to start_as_current_span, line 82.
link_links(l) == IF is_valid(l.parent_ctx) THEN <<l.parent_ctx>> ELSE <<>>

ScopeExitLeak(S, i, o) == IF o.kind = "return" THEN end_span(S, i) ELSE S

ScopeExitLeakOnCancel(S, i, o) == IF o.kind = "cancel" THEN S ELSE end_span(S, i)

\* Leaving the with block of lines 79-89: the span is ended however the
\* body finished (the SDK also records the exception and sets the span's
\* status, which nothing here reads).
scope_exit(S, i, o) == end_span(S, i)

\* scope.get("path", ""), line 74.
scope_path(scope) == IF scope.path = PathMissing THEN "" ELSE scope.path

Ev(op, span, key, val) == [op |-> op, span |-> span, key |-> key, val |-> val]

InitLoc ==
    [should_link |-> FALSE, parent_ctx |-> InvalidCtx, new_context |-> EmptyContext,
     current_span |-> 0, span_name |-> NoneVal, new_name |-> NoneVal,
     child_span |-> 0, token |-> 0, branch |-> "", app_args |-> <<>>]

InitRest ==
    /\ pc = [t \in Tasks |-> "idle"]
    /\ loc = [t \in Tasks |-> InitLoc]
    /\ spans = [t \in Tasks |-> OrigSpan(req[t], t)]
    /\ current = [t \in Tasks |-> t]
    /\ nextId = NTasks + 1
    /\ calls = [t \in Tasks |-> <<>>]
    /\ appOut = [t \in Tasks |-> NoOutcome]
    /\ result = [t \in Tasks |-> NoOutcome]
    /\ running = 0

\* One request, handled by task 1.
Init ==
    /\ \E r \in Requests : req = [t \in Tasks |-> IF t = 1 THEN r ELSE NoRequest]
    /\ InitRest

\* __call__, lines 46-55: the host calls the middleware; the gate is decided.
Call(t) ==
    /\ pc[t] = "idle" /\ running = 0 /\ req[t] # NoRequest
    /\ loc' = [loc EXCEPT ![t].should_link = ShouldLink(req[t].scope)]
    /\ pc' = [pc EXCEPT ![t] = "gate"]
    /\ running' = t
    /\ UNCHANGED <<req, spans, current, nextId, calls, appOut, result>>

\* The arguments of __call__, line 46: the scope and the receive and send
\* callables of the request task t handles.
CallArgs(t) == [scope |-> req[t].scope, receive |-> t, send |-> t]

\* self.app(scope, receive, send) is called: lines 58, 68 and 89.
CallApp(t, branch) ==
    /\ calls' = [calls EXCEPT ![t] = Append(@, Ev("app", current[t], "", branch))]
    /\ loc' = [loc EXCEPT ![t].branch = branch,
                          ![t].app_args = Append(@, CallArgs(t))]
    /\ pc' = [pc EXCEPT ![t] = "app"]

\* Lines 57-58: no link wanted, the app is called as is.
Delegate(t) ==
    /\ pc[t] = "gate" /\ running = t /\ ~loc[t].should_link
    /\ CallApp(t, "plain")
    /\ UNCHANGED <<req, spans, current, nextId, appOut, result, running>>

\* Lines 60, 63-65: _link_trace reads the current span and its context.
EnterLink(t) ==
    /\ pc[t] = "gate" /\ running = t /\ loc[t].should_link
    /\ loc' = [loc EXCEPT ![t].parent_ctx = spans[get_current_otlp_span(t)].context,
                          ![t].new_context = EmptyContext,
                          ![t].current_span = get_current_otlp_span(t)]
    /\ pc' = [pc EXCEPT ![t] = "hasattr"]
    /\ UNCHANGED <<req, spans, current, nextId, calls, appOut, result, running>>

\* Lines 67-69: a span without a name; the app is called as is.
NoNameDelegate(t) ==
    /\ pc[t] = "hasattr" /\ running = t
    /\ ~hasattr_name(spans, loc[t].current_span)
    /\ CallApp(t, "noname")
    /\ UNCHANGED <<req, spans, current, nextId, appOut, result, running>>

\* Lines 67, 71-72: the name is read before any write to the span.
ReadName(t) ==
    /\ pc[t] = "hasattr" /\ running = t
    /\ hasattr_name(spans, loc[t].current_span)
    /\ loc' = [loc EXCEPT ![t].span_name = spans[loc[t].current_span].name,
                          ![t].new_name = "LinkedApiSpan"]
    /\ pc' = [pc EXCEPT ![t] = "set_linked"]
    /\ UNCHANGED <<req, spans, current, nextId, calls, appOut, result, running>>

\* Line 73.
SetLinked(t) ==
    /\ pc[t] = "set_linked" /\ running = t
    /\ spans' = set_attribute(spans, loc[t].current_span, "linked_trace", "True")
    /\ calls' = [calls EXCEPT ![t] =
                    Append(@, Ev("set_attribute", loc[t].current_span,
                                 "linked_trace", "True"))]
    /\ pc' = [pc EXCEPT ![t] = "set_path"]
    /\ UNCHANGED <<req, loc, current, nextId, appOut, result, running>>

\* Line 74: "" + scope.get("path", "") raises TypeError when the path is
\* not a str; nothing catches it.
SetPath(t) ==
    /\ pc[t] = "set_path" /\ running = t
    /\ \/ /\ scope_path(req[t].scope) # PathNotStr
          /\ spans' = set_attribute(spans, loc[t].current_span, "url.path",
                                    scope_path(req[t].scope))
          /\ calls' = [calls EXCEPT ![t] =
                          Append(@, Ev("set_attribute", loc[t].current_span,
                                       "url.path", scope_path(req[t].scope)))]
          /\ pc' = [pc EXCEPT ![t] = "rename"]
          /\ UNCHANGED <<result, running>>
       \/ /\ scope_path(req[t].scope) = PathNotStr
          /\ result' = [result EXCEPT ![t] = [kind |-> "raise", err |-> "TypeError"]]
          /\ pc' = [pc EXCEPT ![t] = "done"]
          /\ running' = 0
          /\ UNCHANGED <<spans, calls>>
    /\ UNCHANGED <<req, loc, current, nextId, appOut>>

\* Line 76.
Rename(t) ==
    /\ pc[t] = "rename" /\ running = t
    /\ spans' = update_name(spans, loc[t].current_span, rename_to(loc[t]))
    /\ calls' = [calls EXCEPT ![t] =
                    Append(@, Ev("update_name", loc[t].current_span, "",
                                 rename_to(loc[t])))]
    /\ pc' = [pc EXCEPT ![t] = "start"]
    /\ UNCHANGED <<req, loc, current, nextId, appOut, result, running>>

\* Lines 77-83: the new span is started and made the current span.
StartSpan(t) ==
    /\ pc[t] = "start" /\ running = t
    /\ spans' = start_span(spans, nextId, link_span_name(loc[t]),
                           link_context(loc[t]), link_links(loc[t]))
    /\ nextId' = nextId + 1
    /\ current' = [current EXCEPT ![t] = Len(spans) + 1]
    /\ loc' = [loc EXCEPT ![t].token = current[t]]
    /\ calls' = [calls EXCEPT ![t] =
                    Append(@, Ev("start_span", Len(spans) + 1, "",
                                 link_span_name(loc[t])))]
    /\ pc' = [pc EXCEPT ![t] = "copy"]
    /\ UNCHANGED <<req, appOut, result, running>>

\* Lines 84-86.
CopyAttrs(t) ==
    /\ pc[t] = "copy" /\ running = t
    /\ loc' = [loc EXCEPT ![t].child_span = get_current_otlp_span(t)]
    /\ spans' = copy_span_attributes(spans, loc[t].current_span,
                                     get_current_otlp_span(t))
    /\ calls' = [calls EXCEPT ![t] =
                    Append(@, Ev("copy_attributes", get_current_otlp_span(t), "", ""))]
    /\ pc' = [pc EXCEPT ![t] = "add_link"]
    /\ UNCHANGED <<req, current, nextId, appOut, result, running>>

\* Line 87.
AddLink(t) ==
    /\ pc[t] = "add_link" /\ running = t
    /\ spans' = add_link(spans, loc[t].current_span,
                         spans[loc[t].child_span].context)
    /\ calls' = [calls EXCEPT ![t] =
                    Append(@, Ev("add_link", loc[t].current_span, "", ""))]
    /\ pc' = [pc EXCEPT ![t] = "invoke"]
    /\ UNCHANGED <<req, loc, current, nextId, appOut, result, running>>

InvokeAppBeforeLink(t) ==
    /\ pc[t] \in {"add_link", "invoke"} /\ running = t
    /\ CallApp(t, "splice")
    /\ UNCHANGED <<req, spans, current, nextId, appOut, result, running>>

\* Line 89.
InvokeApp(t) ==
    /\ pc[t] = "invoke" /\ running = t
    /\ CallApp(t, "splice")
    /\ UNCHANGED <<req, spans, current, nextId, appOut, result, running>>

\* The wrapped app awaits something: the event loop is free for other tasks.
AppSuspend(t) ==
    /\ pc[t] = "app" /\ running = t
    /\ pc' = [pc EXCEPT ![t] = "app_suspended"]
    /\ running' = 0
    /\ UNCHANGED <<req, loc, spans, current, nextId, calls, appOut, result>>

AppResume(t) ==
    /\ pc[t] = "app_suspended" /\ running = 0
    /\ pc' = [pc EXCEPT ![t] = "app"]
    /\ running' = t
    /\ UNCHANGED <<req, loc, spans, current, nextId, calls, appOut, result>>

\* The wrapped app returns, raises, or is cancelled.
AppFinish(t, o) ==
    /\ pc[t] = "app" /\ running = t
    /\ appOut' = [appOut EXCEPT ![t] = o]
    /\ pc' = [pc EXCEPT ![t] = "app_done"]
    /\ UNCHANGED <<req, loc, spans, current, nextId, calls, result, running>>

ExitScopeNoDetach(t) ==
    /\ pc[t] = "app_done" /\ running = t /\ loc[t].branch = "splice"
    /\ spans' = scope_exit(spans, current[t], appOut[t])
    /\ calls' = [calls EXCEPT ![t] = Append(@, Ev("exit", current[t], "", ""))]
    /\ result' = [result EXCEPT ![t] = appOut[t]]
    /\ pc' = [pc EXCEPT ![t] = "done"]
    /\ running' = 0
    /\ UNCHANGED <<req, loc, nextId, appOut, current>>

\* Lines 79-89: the with block is left; the span is ended, the previous
\* current span is restored, and what the app raised goes on to the host.
ExitScope(t) ==
    /\ pc[t] = "app_done" /\ running = t /\ loc[t].branch = "splice"
    /\ spans' = scope_exit(spans, current[t], appOut[t])
    /\ current' = [current EXCEPT ![t] = loc[t].token]
    /\ calls' = [calls EXCEPT ![t] = Append(@, Ev("exit", current[t], "", ""))]
    /\ result' = [result EXCEPT ![t] = appOut[t]]
    /\ pc' = [pc EXCEPT ![t] = "done"]
    /\ running' = 0
    /\ UNCHANGED <<req, loc, nextId, appOut>>

ReturnFallsThrough(t) ==
    /\ pc[t] = "app_done" /\ running = t /\ loc[t].branch \in {"plain", "noname"}
    /\ pc' = [pc EXCEPT ![t] = IF loc[t].branch = "noname" THEN "set_linked" ELSE "done"]
    /\ result' = [result EXCEPT ![t] = IF loc[t].branch = "noname" THEN @ ELSE appOut[t]]
    /\ running' = IF loc[t].branch = "noname" THEN t ELSE 0
    /\ UNCHANGED <<req, loc, spans, current, nextId, calls, appOut>>

\* Lines 58 and 68-69: the plain delegations return what the app returned.
Return(t) ==
    /\ pc[t] = "app_done" /\ running = t /\ loc[t].branch \in {"plain", "noname"}
    /\ result' = [result EXCEPT ![t] = appOut[t]]
    /\ pc' = [pc EXCEPT ![t] = "done"]
    /\ running' = 0
    /\ UNCHANGED <<req, loc, spans, current, nextId, calls, appOut>>

Next ==
    \E t \in Tasks :
        \/ Call(t)
        \/ Delegate(t)
        \/ EnterLink(t)
        \/ NoNameDelegate(t)
        \/ ReadName(t)
        \/ SetLinked(t)
        \/ SetPath(t)
        \/ Rename(t)
        \/ StartSpan(t)
        \/ CopyAttrs(t)
        \/ AddLink(t)
        \/ InvokeApp(t)
        \/ AppSuspend(t)
        \/ AppResume(t)
        \/ \E o \in AppOutcomes : AppFinish(t, o)
        \/ ExitScope(t)
        \/ Return(t)

Spec == Init /\ [][Next]_vars

\* What the wrapped app and the framework around it set on a span.
AppAttrs == {<<"url.path", "/changed">>, <<"http.status_code", "200">>}

\* The wrapped app (while it runs) or the framework (when __call__ is over)
\* sets an attribute on the task's original span or on its current span.
AppSetAttribute(t, i, kv) ==
    /\ \/ pc[t] = "app" /\ running = t
       \/ pc[t] = "done" /\ running = 0
    /\ i \in {t, current[t], loc[t].child_span} \ {0}
    /\ spans' = set_attribute(spans, i, kv[1], kv[2])
    /\ UNCHANGED <<req, pc, loc, current, nextId, calls, appOut, result, running>>

\* Requests for the runs in which every task handles one, concurrently: a
\* splice, a splice of a span with another name and no path, a request
\* without the header, a nameless span, and a path that is not a str.
ConcRequests ==
    { [scope |-> [type |-> "http",
                  headers |-> <<<<"traceparent", "00-0af7-b7ad-01">>>>,
                  path |-> "/orders"],
       span |-> [recording |-> TRUE, name |-> "GET /orders",
                 attributes |-> [k \in {"http.method"} |-> "GET"],
                 ctxValid |-> TRUE]],
      [scope |-> [type |-> "http",
                  headers |-> <<<<"traceparent", "00-0af7-b7ad-01">>>>,
                  path |-> PathMissing],
       span |-> [recording |-> TRUE, name |-> "LinkedApiSpan",
                 attributes |-> [k \in {"linked_trace"} |-> "False"],
                 ctxValid |-> TRUE]],
      [scope |-> [type |-> "http", headers |-> <<<<"host", "00-0af7-b7ad-01">>>>,
                  path |-> "/orders"],
       span |-> [recording |-> TRUE, name |-> "GET /orders",
                 attributes |-> EmptyAttrs, ctxValid |-> TRUE]],
      [scope |-> [type |-> "http",
                  headers |-> <<<<"traceparent", "00-0af7-b7ad-01">>>>,
                  path |-> "/orders"],
       span |-> [recording |-> FALSE, name |-> NoneVal,
                 attributes |-> EmptyAttrs, ctxValid |-> FALSE]],
      [scope |-> [type |-> "http",
                  headers |-> <<<<"traceparent", "00-0af7-b7ad-01">>>>,
                  path |-> PathNotStr],
       span |-> [recording |-> TRUE, name |-> "GET /orders",
                 attributes |-> EmptyAttrs, ctxValid |-> FALSE]] }

\* Every task handles a request; the tasks interleave where the wrapped app
\* awaits.
InitConc ==
    /\ req \in [Tasks -> ConcRequests]
    /\ InitRest

SpecConc == InitConc /\ [][Next]_vars

\* One request, handled by task 1, with an app that writes span attributes.
InitAttrs ==
    /\ \E r \in ConcRequests :
        req = [t \in Tasks |-> IF t = 1 THEN r ELSE NoRequest]
    /\ InitRest

NextAttrs ==
    \/ Next
    \/ \E t \in Tasks : \E i \in 1..Len(spans) : \E kv \in AppAttrs :
        AppSetAttribute(t, i, kv)

SpecAttrs == InitAttrs /\ [][NextAttrs]_vars


\* ------------------------------------------------------------ properties

Active == {t \in Tasks : req[t] # NoRequest}

\* The active span of task t as it was on entry.
Orig(t) == OrigSpan(req[t], t)

\* Name, attributes and links of task t's active span are as on entry.
Untouched(t) ==
    /\ spans[t].name = Orig(t).name
    /\ spans[t].attributes = Orig(t).attributes
    /\ spans[t].links = Orig(t).links

CallsOf(t, op) == {i \in DOMAIN calls[t] : calls[t][i].op = op}

\* The spans task t has started.
Started(t) == {calls[t][i].span : i \in CallsOf(t, "start_span")}

AppCount(t) == Cardinality(CallsOf(t, "app"))

\* Task t started no span, and the store holds no span beyond the active
\* spans and those some task started.
NoSpanCreated(t) ==
    /\ Started(t) = {}
    /\ DOMAIN spans \ Tasks = UNION {Started(u) : u \in Tasks}

\* The header list holds a traceparent entry with a non-empty value.
CarriesTraceparent(scope) ==
    \E i \in DOMAIN scope.headers :
        scope.headers[i][1] = "traceparent" /\ scope.headers[i][2] # ""

\* The header list holds no traceparent entry at all.
NoTraceparentEntry(scope) ==
    \A i \in DOMAIN scope.headers : scope.headers[i][1] # "traceparent"

\* Header names are case-insensitive: the lower-cased name.
Lower(k) == IF k = "Traceparent" THEN "traceparent" ELSE k

\* Two header lists that differ only in the letter case of their keys.
SameUpToCase(h, g) ==
    /\ Len(h) = Len(g)
    /\ \A i \in DOMAIN h : Lower(h[i][1]) = Lower(g[i][1]) /\ h[i][2] = g[i][2]

\* The splice of task t is complete: one new root span in a trace of its
\* own, a link each way, and one rename of the original span.
Spliced(t) ==
    /\ Cardinality(CallsOf(t, "start_span")) = 1
    /\ \A n \in Started(t) :
        /\ spans[n].parent = InvalidCtx
        /\ spans[n].context.trace_id # Orig(t).context.trace_id
        /\ spans[n].links = <<Orig(t).context>>
        /\ spans[t].links = Orig(t).links \o <<spans[n].context>>
    /\ Cardinality(CallsOf(t, "update_name")) = 1
    /\ spans[t].name = "LinkedApiSpan"

\* C1: for every http request (its path a str, or absent) that carries a
\* non-empty traceparent header and whose active span has a name and a
\* valid context, once __call__ has
\* finished exactly one new span was created, it is a root in a trace of
\* its own with exactly one link to the original span's context, the
\* original span got exactly one link to it, and was renamed exactly once.
C1_SpliceInvariant ==
    \A t \in Active :
        ( /\ pc[t] = "done"
          /\ req[t].scope.type = "http"
          /\ req[t].scope.path # PathNotStr
          /\ CarriesTraceparent(req[t].scope)
          /\ req[t].span.recording
          /\ req[t].span.ctxValid )
        => Spliced(t)

\* The same invariant for the requests the gate sends down the splice path:
\* it holds of every run that reached the wrapped app through line 89.
SpliceInvariantOnSplicePath ==
    \A t \in Active :
        (pc[t] = "done" /\ loc[t].branch = "splice" /\ req[t].span.ctxValid)
        => Spliced(t)

\* C2: a request whose header list has no traceparent entry creates no
\* span, leaves name, attributes and links of the active span as they were,
\* and the wrapped app is invoked (once) while the current span is still
\* the span that was active on entry.
C2_PassThrough ==
    \A t \in Active :
        NoTraceparentEntry(req[t].scope) =>
            /\ NoSpanCreated(t)
            /\ Untouched(t)
            /\ current[t] = t
            /\ \A i \in CallsOf(t, "app") : calls[t][i].span = t
            /\ AppCount(t) <= 1
            /\ pc[t] \in {"app", "app_suspended", "app_done", "done"}
                => AppCount(t) = 1

C2_Witness ==
    \E t \in Active :
        /\ pc[t] = "done"
        /\ req[t].scope.type = "http"
        /\ NoTraceparentEntry(req[t].scope)
        /\ req[t].span.recording
        /\ AppCount(t) = 1

\* C3: on the splice path, when the wrapped app raises, the same error is
\* what __call__ raises to the host, and the new root span is ended by then.
C3_ExceptionTransparency ==
    \A t \in Active :
        (pc[t] = "done" /\ loc[t].branch = "splice" /\ appOut[t].kind = "raise")
        => /\ result[t] = appOut[t]
           /\ \A n \in Started(t) : spans[n].ended
           /\ Started(t) # {}

C3_Witness ==
    \E t \in Active :
        /\ pc[t] = "done" /\ loc[t].branch = "splice"
        /\ appOut[t] = [kind |-> "raise", err |-> "ValueError"]
        /\ result[t].err = "ValueError"

\* C4: the new root span is named as the active span was named before the
\* rename, whatever that name was.
C4_NameTransplant ==
    \A t \in Active :
        \A n \in Started(t) : spans[n].name = Orig(t).name

C4_Witness ==
    \E t \in Active :
        /\ pc[t] = "app" /\ loc[t].branch = "splice"
        /\ Orig(t).name = "GET /orders"
        /\ spans[t].name = "LinkedApiSpan"
        /\ \E n \in Started(t) : spans[n].name = "GET /orders"

\* C5: on the splice path the active span's name after the rename is never
\* its name before the rename, whatever that name was.
C5_RenameChangesName ==
    \A t \in Active :
        CallsOf(t, "update_name") # {} => spans[t].name # Orig(t).name

\* C5, amended: on the splice path the active span's name after the rename
\* is the sentinel LinkedApiSpan; it differs from the name before the rename
\* exactly when that name was not the sentinel already.
C5_RenameToSentinel ==
    \A t \in Active :
        CallsOf(t, "update_name") # {} =>
            /\ spans[t].name = "LinkedApiSpan"
            /\ (spans[t].name # Orig(t).name) <=> (Orig(t).name # "LinkedApiSpan")

C5_Witness ==
    \E t \in Active :
        /\ pc[t] = "start"
        /\ Orig(t).name = "GET /orders"
        /\ spans[t].name = "LinkedApiSpan"

\* C6: when the wrapped app is invoked on the splice path, every key/value
\* pair the original span held on entry, a linked_trace or url.path pair
\* included, is on the new root span with the same value.
C6_AttributeMigration ==
    \A t \in Active :
        (pc[t] = "app" /\ loc[t].branch = "splice") =>
            \A k \in DOMAIN Orig(t).attributes :
                /\ k \in DOMAIN spans[loc[t].child_span].attributes
                /\ spans[loc[t].child_span].attributes[k] = Orig(t).attributes[k]

MarkerKeys == {"linked_trace", "url.path"}

\* C6, amended: when the wrapped app is invoked on the splice path, every
\* pair the original span held on entry under a key other than linked_trace
\* and url.path is on the new root span with the same value; linked_trace
\* and url.path hold what the middleware set (True and the request path).
C6_AttributeMigrationAmended ==
    \A t \in Active :
        (pc[t] = "app" /\ loc[t].branch = "splice") =>
            LET new == spans[loc[t].child_span].attributes IN
            /\ \A k \in DOMAIN Orig(t).attributes \ MarkerKeys :
                k \in DOMAIN new /\ new[k] = Orig(t).attributes[k]
            /\ MarkerKeys \subseteq DOMAIN new
            /\ new["linked_trace"] = "True"
            /\ new["url.path"] = scope_path(req[t].scope)
            /\ new = spans[t].attributes

C6_Witness ==
    \E t \in Active :
        /\ pc[t] = "app" /\ loc[t].branch = "splice"
        /\ "url.path" \in DOMAIN Orig(t).attributes
        /\ Orig(t).attributes["url.path"] = "/old"
        /\ spans[loc[t].child_span].attributes["http.method"] = "GET"
        /\ spans[loc[t].child_span].attributes["url.path"] = "/orders"

\* C7: an http request with a traceparent header whose active span has no
\* name: the wrapped app is invoked exactly once, no span is created, and
\* name, attributes and links of the active span stay as they were.
C7_NoOpSpanDegrade ==
    \A t \in Active :
        ( /\ req[t].scope.type = "http"
          /\ ~NoTraceparentEntry(req[t].scope)
          /\ ~req[t].span.recording )
        => /\ NoSpanCreated(t)
           /\ Untouched(t)
           /\ spans[t] = Orig(t)
           /\ AppCount(t) <= 1
           /\ pc[t] = "done" => AppCount(t) = 1

C7_Witness ==
    \E t \in Active :
        /\ pc[t] = "done" /\ loc[t].branch = "noname"
        /\ loc[t].should_link
        /\ ~req[t].span.recording
        /\ AppCount(t) = 1

\* C8: a request whose upstream context is absent or invalid (a non-empty
\* traceparent with an invalid captured context included) is not mutated:
\* name, attributes and links of the original span stay as they were.
C8_NoMutationWhenAbsentOrInvalid ==
    \A t \in Active :
        (~CarriesTraceparent(req[t].scope) \/ ~req[t].span.ctxValid)
        => Untouched(t)

\* C8, amended: a request without a non-empty traceparent entry is not
\* mutated.  An invalid captured context does not stop the splice: on the
\* splice path the original span is marked, renamed and linked to the new
\* root span all the same, and only the new span's link is left out.
C8_NoMutationWhenAbsent ==
    \A t \in Active :
        /\ ~CarriesTraceparent(req[t].scope) => Untouched(t) /\ Started(t) = {}
        /\ ( /\ pc[t] \in {"app", "app_suspended", "app_done", "done"}
             /\ loc[t].branch = "splice"
             /\ ~req[t].span.ctxValid )
           => /\ spans[t].name = "LinkedApiSpan"
              /\ spans[t].attributes["linked_trace"] = "True"
              /\ spans[loc[t].child_span].links = <<>>
              /\ spans[t].links = <<spans[loc[t].child_span].context>>

C8_Witness ==
    \E t \in Active :
        /\ pc[t] = "done" /\ loc[t].branch = "splice"
        /\ ~req[t].span.ctxValid
        /\ Orig(t).name = "GET /orders"
        /\ spans[t].name = "LinkedApiSpan"

\* C9: an http request whose header list holds at least one traceparent
\* entry with a non-empty value takes the splice path, whatever the order
\* and the values of its other traceparent entries.
C9_RepeatedHeaderSplices ==
    \A t \in Active :
        ( /\ pc[t] # "idle"
          /\ req[t].scope.type = "http"
          /\ CarriesTraceparent(req[t].scope) )
        => loc[t].should_link

\* C10: the gate's decision is the same for every letter case of the header
\* keys of the request.
C10_CaseInsensitiveGate ==
    \A t \in Active :
        pc[t] # "idle" =>
            \A h \in HeaderLists :
                SameUpToCase(h, req[t].scope.headers) =>
                    ShouldLink([req[t].scope EXCEPT !.headers = h])
                        = loc[t].should_link


\* The one step before the app call that fails in this model: line 74 on a
\* scope whose path is not a str, reached on the splice path of a named span.
StepFails(t) ==
    /\ ShouldLink(req[t].scope)
    /\ req[t].span.recording
    /\ req[t].scope.path = PathNotStr

\* C11: when a step of the splice that precedes the app call fails (here:
\* setting url.path from a path that is not a str), no error leaves __call__
\* because of it and the wrapped app is still invoked exactly once.
C11_SoftDegrade ==
    \A t \in Active :
        (pc[t] = "done" /\ StepFails(t))
        => /\ AppCount(t) = 1
           /\ result[t] = appOut[t]

\* C12: a scope whose type is not http, a non-empty traceparent in its
\* headers or not, is delegated to the wrapped app with no span created and
\* no change to the active span.
C12_NonHttpPassThrough ==
    \A t \in Active :
        req[t].scope.type # "http" =>
            /\ NoSpanCreated(t)
            /\ spans[t] = Orig(t)
            /\ current[t] = t
            /\ AppCount(t) <= 1
            /\ \A i \in CallsOf(t, "app") : calls[t][i].val = "plain"
            /\ DOMAIN calls[t] = CallsOf(t, "app")
            /\ pc[t] = "done" => AppCount(t) = 1

C12_Witness ==
    \E t \in Active :
        /\ pc[t] = "done"
        /\ req[t].scope.type = "websocket"
        /\ CarriesTraceparent(req[t].scope)
        /\ req[t].span.recording
        /\ AppCount(t) = 1

\* C13: on the splice path the new root span is not ended while the wrapped
\* app runs, and however the app finished (return, error, cancellation) the
\* span is ended when control has left the middleware.
C13_ClosureDiscipline ==
    \A t \in Active :
        \A n \in Started(t) :
            /\ pc[t] \in {"copy", "add_link", "invoke", "app", "app_suspended",
                          "app_done"} => ~spans[n].ended
            /\ pc[t] = "done" => spans[n].ended
            /\ pc[t] = "done" => calls[t][Len(calls[t])].op = "exit"
            /\ \A i \in CallsOf(t, "exit") : \A j \in CallsOf(t, "app") : j < i

C13_Witness ==
    \E t \in Active :
        /\ pc[t] = "done" /\ loc[t].branch = "splice"
        /\ appOut[t].kind = "cancel"
        /\ result[t].kind = "cancel"
        /\ \E n \in Started(t) : spans[n].ended


\* C14: on every path on which no step fails (non-http scope, http without
\* traceparent, http with traceparent and a nameless span, http with
\* traceparent and a full splice) the wrapped app is invoked exactly once,
\* with the scope, receive and send that __call__ was given.
C14_ExactlyOnce ==
    \A t \in Active :
        ~StepFails(t) =>
            /\ Len(loc[t].app_args) = AppCount(t)
            /\ AppCount(t) <= 1
            /\ \A i \in DOMAIN loc[t].app_args : loc[t].app_args[i] = CallArgs(t)
            /\ pc[t] \in {"app", "app_suspended", "app_done", "done"}
                => AppCount(t) = 1

C14_Witness ==
    \E t \in Active :
        /\ pc[t] = "done" /\ loc[t].branch = "splice"
        /\ loc[t].app_args = <<CallArgs(t)>>
        /\ result[t].kind = "return"


\* The tracing and app calls of a complete splice, in the order of the code.
SpliceOps ==
    <<"set_attribute", "set_attribute", "update_name", "start_span",
      "copy_attributes", "add_link", "app", "exit">>

Ops(t) == [i \in DOMAIN calls[t] |-> calls[t][i].op]

IsPrefix(s, q) == Len(s) <= Len(q) /\ \A i \in DOMAIN s : s[i] = q[i]

\* C15: in every run of the splice path the original span's context and
\* name are captured first; then the span gets linked_trace and url.path and
\* is renamed; only then the new root span is started; only then the
\* attributes are copied and the reverse link is added; only then the
\* wrapped app is invoked.
C15_SpliceOrdering ==
    \A t \in Active :
        (loc[t].should_link /\ req[t].span.recording) =>
            /\ IsPrefix(Ops(t), SpliceOps)
            /\ Len(calls[t]) >= 1 => calls[t][1].key = "linked_trace"
            /\ Len(calls[t]) >= 2 => calls[t][2].key = "url.path"
            /\ calls[t] # <<>> =>
                /\ loc[t].parent_ctx = Orig(t).context
                /\ loc[t].span_name = Orig(t).name
            /\ \A n \in Started(t) :
                /\ spans[t].name = "LinkedApiSpan"
                /\ MarkerKeys \subseteq DOMAIN spans[t].attributes
                /\ spans[n].name = loc[t].span_name
            /\ CallsOf(t, "app") # {} =>
                /\ spans[loc[t].child_span].attributes = spans[t].attributes
                /\ spans[loc[t].child_span].links = link_links(loc[t])
                /\ spans[t].links = <<spans[loc[t].child_span].context>>

C15_Witness ==
    \E t \in Active :
        /\ pc[t] = "done"
        /\ Ops(t) = SpliceOps
        /\ req[t].span.ctxValid


\* C16: on the splice path of a named span the new root span is started
\* with exactly one link, to the captured context of the original span,
\* when that context is valid, and with no link when it is invalid; in the
\* invalid case the original span is still marked and renamed, one new root
\* span is still created, and the original span still gets its link to it.
C16_LinkGating ==
    \A t \in Active :
        \A n \in Started(t) :
            /\ spans[n].links =
                IF is_valid(Orig(t).context) THEN <<Orig(t).context>> ELSE <<>>
            /\ ~req[t].span.ctxValid =>
                /\ spans[n].links = <<>>
                /\ spans[t].name = "LinkedApiSpan"
                /\ spans[t].attributes["linked_trace"] = "True"
                /\ Cardinality(Started(t)) = 1
                /\ spans[n].parent = InvalidCtx
                /\ is_valid(spans[n].context)
                /\ pc[t] \in {"invoke", "app", "app_suspended", "app_done", "done"}
                    => spans[t].links = <<spans[n].context>>

C16_Witness ==
    \E t \in Active :
        /\ pc[t] = "copy"
        /\ req[t].span.ctxValid
        /\ \E n \in Started(t) :
            Len(spans[n].links) = 1 /\ spans[n].links[1] = spans[t].context


\* The attributes of task t's original span once lines 73-74 have run.
Marked(t) ==
    SetAttr(SetAttr(Orig(t).attributes, "linked_trace", "True"),
            "url.path", scope_path(req[t].scope))

\* C17: with requests handled concurrently by one middleware, interleaved
\* where the wrapped app awaits, each request's new root span takes the
\* name of, copies the attributes of and links to its own request's
\* original span only, each original span is linked only to its own
\* request's new root span, and no request reads or writes the spans of
\* another.
C17_Isolation ==
    \A t \in Active :
        /\ loc[t].current_span \in {0, t}
        /\ loc[t].child_span \in {0} \cup Started(t)
        /\ current[t] \in {t} \cup Started(t)
        /\ \A u \in Active \ {t} : Started(t) \cap Started(u) = {}
        /\ \A i \in DOMAIN calls[t] :
            calls[t][i].op # "app" => calls[t][i].span \in {t} \cup Started(t)
        /\ \A i \in DOMAIN loc[t].app_args : loc[t].app_args[i] = CallArgs(t)
        /\ \A n \in Started(t) :
            /\ spans[n].name = Orig(t).name
            /\ spans[n].links = link_links([parent_ctx |-> Orig(t).context])
            /\ spans[n].attributes \in {EmptyAttrs, Marked(t)}
            /\ loc[t].child_span = n => spans[n].attributes = Marked(t)
        /\ spans[t].links \in {<<>>} \cup {<<spans[n].context>> : n \in Started(t)}
        /\ spans[t].name \in {Orig(t).name, "LinkedApiSpan"}
        /\ spans[t].attributes \in
            {Orig(t).attributes,
             SetAttr(Orig(t).attributes, "linked_trace", "True"),
             Marked(t)}
        /\ ~(ShouldLink(req[t].scope) /\ req[t].span.recording)
            => spans[t] = Orig(t)

C17_Witness ==
    \E t \in Active : \E u \in Active \ {t} :
        /\ pc[t] = "app_suspended" /\ pc[u] = "app_suspended"
        /\ loc[t].branch = "splice" /\ loc[u].branch = "splice"
        /\ Orig(t).name # Orig(u).name
        /\ spans[loc[t].child_span].name = Orig(t).name
        /\ spans[loc[u].child_span].name = Orig(u).name
        /\ spans[loc[t].child_span].attributes # spans[loc[u].child_span].attributes


\* C18: on the splice path the wrapped app runs while the current span is
\* the new root span, not the original; and when __call__ has returned or
\* raised, on any path, the current span is again the span that was current
\* on entry.
C18_AmbientBracketing ==
    \A t \in Active :
        /\ \A i \in CallsOf(t, "app") :
            calls[t][i].val = "splice" =>
                calls[t][i].span \in Started(t) /\ calls[t][i].span # t
        /\ (pc[t] \in {"app", "app_suspended", "app_done"} /\ loc[t].branch = "splice")
            => current[t] \in Started(t) /\ current[t] = loc[t].child_span
        /\ pc[t] \in {"idle", "done"} => current[t] = t

C18_Witness ==
    \E t \in Active :
        /\ pc[t] = "done" /\ loc[t].branch = "splice"
        /\ result[t].kind = "raise"
        /\ current[t] = t
        /\ \E i \in CallsOf(t, "app") : calls[t][i].span = loc[t].child_span


\* C19: once the attributes are copied, a step that sets or changes an
\* attribute of the original span leaves the new root span's attributes as
\* they are, and a step that sets one on the new root span leaves the
\* original span's as they are.
C19_CopyByValue ==
    [][\A t \in Active :
        (loc[t].child_span # 0 /\ loc'[t].child_span = loc[t].child_span) =>
            LET n == loc[t].child_span IN
            /\ spans'[t].attributes # spans[t].attributes
                => spans'[n].attributes = spans[n].attributes
            /\ spans'[n].attributes # spans[n].attributes
                => spans'[t].attributes = spans[t].attributes]_vars

C19_Witness ==
    \E t \in Active :
        /\ pc[t] = "app" /\ loc[t].branch = "splice"
        /\ spans[t].attributes["url.path"] = "/changed"
        /\ spans[loc[t].child_span].attributes["url.path"] = "/orders"
        /\ "http.status_code" \in DOMAIN spans[loc[t].child_span].attributes
        /\ "http.status_code" \notin DOMAIN spans[t].attributes

====
